---- MODULE Spec2Model ----
(***************************************************************************)
(* Model of Streamlit_app.py: the feature encoder prepare_features, the    *)
(* column reconciliation create_input_dataframe, the cached load_model and *)
(* the top-level script that Streamlit runs from top to bottom on every    *)
(* user interaction.                                                       *)
(*                                                                         *)
(* The Cyrillic string literals of the source are written here in Latin    *)
(* transliteration (one distinct Latin string per distinct source string): *)
(*   Kvartira = Квартира, Studiya = Студия, Apartamenty = Апартаменты,     *)
(*   Penthaus = Пентхаус, Centr = Центр, Sputnik = Спутник,                *)
(*   Vostochnyj = Восточный, Zapadnyj = Западный, Severnyj = Северный,     *)
(*   Yuzhnyj = Южный, bez remonta = без ремонта,                           *)
(*   kosmeticheskij = косметический, evroremont = евроремонт,              *)
(*   dizajnerskij = дизайнерский, vo dvor = во двор, na ulicu = на улицу,  *)
(*   na ulicu i dvor = на улицу и двор,                                    *)
(*   Mozhno s zhivotnymi = Можно с животными,                              *)
(*   Mozhno s detmi = Можно с детьми, net = нет, 1 balkon = 1 балкон,      *)
(*   2 balkona = 2 балкона, lodzhiya = лоджия, 2 lodzhii = 2 лоджии,       *)
(*   nazemnaya = наземная, podzemnaya = подземная,                         *)
(*   mnogourovnevaya = многоуровневая, na kryshe = на крыше,               *)
(*   sovmeshchennyj = совмещенный, razdelnyj = раздельный,                 *)
(*   2 sanuzla = 2 санузла, property_Kvartira = property_Квартира,         *)
(*   Neizvestnyj rajon = Неизвестный район.                                *)
(* Real-valued widget values are written in tenths (65.0 is 650).          *)
(***************************************************************************)
EXTENDS Integers, Sequences, FiniteSets, TLC

VARIABLES
    op,                 \* harness: the function called last ("none" before any call)
    input_dict,         \* harness: argument of prepare_features
    result,             \* harness: outcome of prepare_features
    prepared_features,  \* harness: first argument of create_input_dataframe
    model_features,     \* harness: second argument of create_input_dataframe
    df,                 \* harness: outcome of create_input_dataframe
    pc,                 \* script: the statement the current run is at
    button,             \* script: the button whose press started the run
    widgets,            \* script: the value each widget returns
    session_state,      \* script: st.session_state, kept across runs
    file_exists,        \* os.path.exists(model_path)
    cache,              \* st.cache_resource entry of load_model
    model,              \* script: the global model
    ui,                 \* script: the elements shown by the current run
    calls,              \* script: calls made and failures seen by the current run
    predicted_price     \* script: the global predicted_price

harness_vars == <<op>>
script_vars ==
    <<pc, button, widgets, session_state, file_exists, cache, model, ui, calls,
      predicted_price>>
data_vars == <<input_dict, result, prepared_features, model_features, df>>
vars == <<harness_vars, data_vars, script_vars>>

(***************************************************************************)
(* Bounds of the model.                                                    *)
(***************************************************************************)
MaxFields == 3      \* fields present in an input record of the harness
MaxKeys == 2        \* keys of a features dict handed to create_input_dataframe
MaxCols == 2        \* length of an expected column sequence
MaxChanged == 1     \* widgets the user has moved away from their default

(***************************************************************************)
(* Python values: outcomes of a call, None, dicts.                         *)
(***************************************************************************)
Return(v) == [kind |-> "return", value |-> v]
Raise(e) == [kind |-> "raise", exc |-> e]
NoCall == [kind |-> "none"]

\* The empty dict {} where keys map to values of any type.
EmptyDict == [f \in {} |-> 0]

None == [tag |-> "None"]
Some(v) == [tag |-> "Some", v |-> v]

\* A Python dict (and the one-row DataFrame built from it) is a sequence of
\* <<key, value>> pairs in insertion order, with distinct keys.
DictKeys(d) == [i \in 1..Len(d) |-> d[i][1]]
DictKeySet(d) == {d[i][1] : i \in 1..Len(d)}
DictHas(d, k) == k \in DictKeySet(d)
DictGet(d, k) == d[CHOOSE i \in 1..Len(d) : d[i][1] = k][2]
\* d[k] = v: an existing key keeps its position, a new key is appended.
DictSet(d, k, v) ==
    IF DictHas(d, k)
    THEN [i \in 1..Len(d) |-> IF d[i][1] = k THEN <<k, v>> ELSE d[i]]
    ELSE Append(d, <<k, v>>)

(***************************************************************************)
(* prepare_features                                                        *)
(***************************************************************************)
encoding_maps ==
    [renovation |->
        ("bez remonta" :> 0 @@ "kosmeticheskij" :> 1 @@ "evroremont" :> 2
            @@ "dizajnerskij" :> 3),
     windows |->
        ("vo dvor" :> 0 @@ "na ulicu" :> 1 @@ "na ulicu i dvor" :> 2),
     children_pets |->
        ("Mozhno s zhivotnymi" :> 0 @@ "Mozhno s detmi" :> 1
            @@ "Mozhno s detmi, Mozhno s zhivotnymi" :> 2),
     balcony |->
        ("net" :> 0 @@ "1 balkon" :> 1 @@ "2 balkona" :> 2 @@ "lodzhiya" :> 3
            @@ "2 lodzhii" :> 4),
     parking |->
        ("net" :> 0 @@ "nazemnaya" :> 1 @@ "podzemnaya" :> 2
            @@ "mnogourovnevaya" :> 3 @@ "na kryshe" :> 4),
     bathroom |->
        ("sovmeshchennyj" :> 0 @@ "razdelnyj" :> 1 @@ "2 sanuzla" :> 2),
     property_type |->
        ("Kvartira" :> 1 @@ "Studiya" :> 0 @@ "Apartamenty" :> 0
            @@ "Penthaus" :> 0),
     metro |->
        ("Centr" :> 1 @@ "Sputnik" :> 0 @@ "Vostochnyj" :> 0 @@ "Zapadnyj" :> 0
            @@ "Severnyj" :> 0 @@ "Yuzhnyj" :> 0)]

features_template ==
    << <<"total_area", 0>>, <<"numbere_of_rooms", 0>>, <<"ceiling_height", 0>>,
       <<"Time_metro", 0>>, <<"pass_elevators", 0>>, <<"cargo_elevators", 0>>,
       <<"renovation_encoded", 0>>, <<"windows_encoded", 0>>,
       <<"children_pets_encoded", 0>>, <<"balcony_encoded", 0>>,
       <<"parking_encoded", 0>>, <<"bathroom_encoded", 0>>,
       <<"metro_encoder", 0>>, <<"property_Kvartira", 0>>,
       <<"address_encod", 0>> >>

numeric_features ==
    <<"total_area", "numbere_of_rooms", "ceiling_height", "Time_metro",
      "pass_elevators", "cargo_elevators">>

\* Mutant: a copy-paste slip maps windows to renovation_encoded.
categorical_mappings_slip ==
    << <<"renovation", "renovation_encoded">>,
       <<"windows", "renovation_encoded">>,
       <<"children_pets", "children_pets_encoded">>,
       <<"balcony", "balcony_encoded">>,
       <<"parking", "parking_encoded">>,
       <<"bathroom", "bathroom_encoded">> >>

\* The items of the dict categorical_mappings, in insertion order.
categorical_mappings ==
    << <<"renovation", "renovation_encoded">>,
       <<"windows", "windows_encoded">>,
       <<"children_pets", "children_pets_encoded">>,
       <<"balcony", "balcony_encoded">>,
       <<"parking", "parking_encoded">>,
       <<"bathroom", "bathroom_encoded">> >>

\* Mutant: the loop stops one feature early (cargo_elevators is never copied).
RECURSIVE FillNumeric_short(_, _, _)
FillNumeric_short(template, inp, i) ==
    IF i >= Len(numeric_features) THEN template
    ELSE LET feature == numeric_features[i] IN
         FillNumeric_short(IF feature \in DOMAIN inp
                           THEN DictSet(template, feature, inp[feature])
                           ELSE template,
                           inp, i + 1)

\* for feature in [...]: if feature in input_dict: template[feature] = input_dict[feature]
RECURSIVE FillNumeric(_, _, _)
FillNumeric(template, inp, i) ==
    IF i > Len(numeric_features) THEN template
    ELSE LET feature == numeric_features[i] IN
         FillNumeric(IF feature \in DOMAIN inp
                     THEN DictSet(template, feature, inp[feature])
                     ELSE template,
                     inp, i + 1)

\* Mutant: the code is stored under the input key instead of the feature key.
RECURSIVE EncodeCategorical_inputkey(_, _, _)
EncodeCategorical_inputkey(template, inp, i) ==
    IF i > Len(categorical_mappings) THEN template
    ELSE LET input_key == categorical_mappings[i][1]
         IN EncodeCategorical_inputkey(
                IF /\ input_key \in DOMAIN inp
                   /\ inp[input_key] \in DOMAIN encoding_maps[input_key]
                THEN DictSet(template, input_key,
                             encoding_maps[input_key][inp[input_key]])
                ELSE template,
                inp, i + 1)

\* for input_key, feature_key in categorical_mappings.items(): ...
RECURSIVE EncodeCategorical(_, _, _)
EncodeCategorical(template, inp, i) ==
    IF i > Len(categorical_mappings) THEN template
    ELSE LET input_key == categorical_mappings[i][1]
             feature_key == categorical_mappings[i][2]
         IN EncodeCategorical(
                IF /\ input_key \in DOMAIN inp
                   /\ inp[input_key] \in DOMAIN encoding_maps[input_key]
                THEN DictSet(template, feature_key,
                             encoding_maps[input_key][inp[input_key]])
                ELSE template,
                inp, i + 1)

\* encoding_maps['property_type'][input_dict['property_type']]: a subscript,
\* which raises KeyError on a value that is no key of the table.
EncodePropertyType(template, inp) ==
    IF "property_type" \notin DOMAIN inp THEN Return(template)
    ELSE IF inp["property_type"] \in DOMAIN encoding_maps["property_type"]
         THEN Return(DictSet(template, "property_Kvartira",
                             encoding_maps["property_type"][inp["property_type"]]))
         ELSE Raise("KeyError")

\* Mutant: .get(metro_value, 1), a wrong default.
EncodeMetro_default1(template, inp) ==
    IF "metro" \notin DOMAIN inp THEN template
    ELSE LET metro_value == inp["metro"] IN
         DictSet(template, "metro_encoder",
                 IF metro_value \in DOMAIN encoding_maps["metro"]
                 THEN encoding_maps["metro"][metro_value]
                 ELSE 1)

\* encoding_maps['metro'].get(metro_value, 0)
EncodeMetro(template, inp) ==
    IF "metro" \notin DOMAIN inp THEN template
    ELSE LET metro_value == inp["metro"] IN
         DictSet(template, "metro_encoder",
                 IF metro_value \in DOMAIN encoding_maps["metro"]
                 THEN encoding_maps["metro"][metro_value]
                 ELSE 0)

prepare_features(inp) ==
    LET t1 == FillNumeric(features_template, inp, 1)
        t2 == EncodeCategorical(t1, inp, 1)
        r3 == EncodePropertyType(t2, inp)
    IN IF r3.kind = "raise" THEN r3
       ELSE Return(EncodeMetro(r3.value, inp))

(***************************************************************************)
(* create_input_dataframe                                                  *)
(***************************************************************************)
SeqSet(s) == {s[i] : i \in 1..Len(s)}

\* The sequences that enumerate the set S once each: the orders in which a
\* Python set can be iterated.
Orders(S) ==
    {o \in [1..Cardinality(S) -> S] : \A x \in S : \E i \in DOMAIN o : o[i] = x}

\* for col in missing_cols: df[col] = 0
RECURSIVE AddColumns(_, _, _)
AddColumns(frame, order, i) ==
    IF i > Len(order) THEN frame
    ELSE AddColumns(DictSet(frame, order[i], 0), order, i + 1)

\* df[model_features]: the columns named, in the order named; KeyError when
\* a name is no column of the frame.
SelectColumns(frame, cols) ==
    IF \E i \in 1..Len(cols) : ~DictHas(frame, cols[i])
    THEN Raise("KeyError")
    ELSE Return([i \in 1..Len(cols) |-> <<cols[i], DictGet(frame, cols[i])>>])

\* Mutant: no column is found missing, so none is added.
missing_cols_none(features, cols) == {}

missing_cols(features, cols) == SeqSet(cols) \ DictKeySet(features)

\* Mutant: "model_features or []", None is treated as an empty column list.
create_input_dataframe_orempty(features, mf, order) ==
    LET frame == features
    IN SelectColumns(AddColumns(frame, order, 1),
                     IF mf.tag = "None" THEN <<>> ELSE mf.v)

\* order: the order in which the set missing_cols is iterated.
create_input_dataframe(features, mf, order) ==
    LET frame == features
    IN IF mf.tag = "None" THEN Return(frame)
       ELSE SelectColumns(AddColumns(frame, order, 1), mf.v)

(***************************************************************************)
(* The script: widgets, load_model and the top-level statements.           *)
(***************************************************************************)
\* Mutant: the form offers a property type the encoder's table lacks.
widget_options_taunhaus ==
    [total_area |-> <<150, 650, 2000>>,
     numbere_of_rooms |-> <<1, 2, 3, 4, 5, 6>>,
     ceiling_height |-> <<23, 27, 40>>,
     Time_metro |-> <<1, 10, 45>>,
     property_type |-> <<"Kvartira", "Studiya", "Apartamenty", "Penthaus",
                         "Taunhaus">>,
     metro |-> <<"Centr", "Sputnik", "Vostochnyj", "Zapadnyj", "Severnyj",
                 "Yuzhnyj">>,
     renovation |-> <<"bez remonta", "kosmeticheskij", "evroremont",
                      "dizajnerskij">>,
     balcony |-> <<"net", "1 balkon", "2 balkona", "lodzhiya", "2 lodzhii">>,
     windows |-> <<"vo dvor", "na ulicu", "na ulicu i dvor">>,
     parking |-> <<"net", "nazemnaya", "podzemnaya", "mnogourovnevaya">>,
     bathroom |-> <<"sovmeshchennyj", "razdelnyj", "2 sanuzla">>,
     children_pets |-> <<"Mozhno s zhivotnymi", "Mozhno s detmi",
                         "Mozhno s detmi, Mozhno s zhivotnymi">>,
     pass_elevators |-> <<0, 1, 2, 3>>,
     cargo_elevators |-> <<0, 1, 2>>,
     template |-> <<"Standartnaya 2-komnatnaya", "Studiya v centre",
                    "Premium 3-komnatnaya">>]

\* The options of each st.selectbox, in the order given, and for each
\* st.slider its min_value, its value and its max_value.
widget_options ==
    [total_area |-> <<150, 650, 2000>>,
     numbere_of_rooms |-> <<1, 2, 3, 4, 5, 6>>,
     ceiling_height |-> <<23, 27, 40>>,
     Time_metro |-> <<1, 10, 45>>,
     property_type |-> <<"Kvartira", "Studiya", "Apartamenty", "Penthaus">>,
     metro |-> <<"Centr", "Sputnik", "Vostochnyj", "Zapadnyj", "Severnyj",
                 "Yuzhnyj">>,
     renovation |-> <<"bez remonta", "kosmeticheskij", "evroremont",
                      "dizajnerskij">>,
     balcony |-> <<"net", "1 balkon", "2 balkona", "lodzhiya", "2 lodzhii">>,
     windows |-> <<"vo dvor", "na ulicu", "na ulicu i dvor">>,
     parking |-> <<"net", "nazemnaya", "podzemnaya", "mnogourovnevaya">>,
     bathroom |-> <<"sovmeshchennyj", "razdelnyj", "2 sanuzla">>,
     children_pets |-> <<"Mozhno s zhivotnymi", "Mozhno s detmi",
                         "Mozhno s detmi, Mozhno s zhivotnymi">>,
     pass_elevators |-> <<0, 1, 2, 3>>,
     cargo_elevators |-> <<0, 1, 2>>,
     template |-> <<"Standartnaya 2-komnatnaya", "Studiya v centre",
                    "Premium 3-komnatnaya">>]

\* index= of each selectbox (0-based, as in the source; 0 when not given);
\* for a slider the position of value= among the three values kept.
widget_index ==
    [total_area |-> 1, numbere_of_rooms |-> 1, ceiling_height |-> 1,
     Time_metro |-> 1, property_type |-> 0, metro |-> 0, renovation |-> 1,
     balcony |-> 1, windows |-> 1, parking |-> 1, bathroom |-> 1,
     children_pets |-> 2, pass_elevators |-> 1, cargo_elevators |-> 0,
     template |-> 0]

Widgets == DOMAIN widget_options

widget_default == [w \in Widgets |-> widget_options[w][widget_index[w] + 1]]

\* input_data = {...}: the 14 form widgets, the template selectbox left out.
input_data == [f \in Widgets \ {"template"} |-> widgets[f]]

\* The assignments to st.session_state of each template.
template_state(t) ==
    IF t = "Standartnaya 2-komnatnaya"
    THEN [total_area |-> 650, numbere_of_rooms |-> 2, ceiling_height |-> 27,
          Time_metro |-> 15, property_type |-> "Kvartira", metro |-> "Sputnik",
          renovation |-> "kosmeticheskij"]
    ELSE IF t = "Studiya v centre"
    THEN [total_area |-> 400, numbere_of_rooms |-> 1, ceiling_height |-> 30,
          Time_metro |-> 5, property_type |-> "Studiya", metro |-> "Centr",
          renovation |-> "evroremont"]
    ELSE [total_area |-> 950, numbere_of_rooms |-> 3, ceiling_height |-> 32,
          Time_metro |-> 10, property_type |-> "Kvartira", metro |-> "Centr",
          renovation |-> "dizajnerskij"]

\* The objects joblib.load can give: a model without feature_names_in_, one
\* whose feature_names_in_ are the encoder's names in another order, and one
\* whose feature_names_in_ lack encoder names and hold a name it never gives.
Models ==
    {[has_feature_names_in_ |-> FALSE, feature_names_in_ |-> <<>>],
     [has_feature_names_in_ |-> TRUE,
      feature_names_in_ |->
          <<"address_encod", "property_Kvartira", "metro_encoder",
            "bathroom_encoded", "parking_encoded", "balcony_encoded",
            "children_pets_encoded", "windows_encoded", "renovation_encoded",
            "cargo_elevators", "pass_elevators", "Time_metro",
            "ceiling_height", "numbere_of_rooms", "total_area">>],
     [has_feature_names_in_ |-> TRUE,
      feature_names_in_ |-> <<"metro_encoder", "total_area", "floor">>]}

NoCalls ==
    [download |-> 0, load |-> 0, prepare |-> 0, predict |-> 0,
     load_failed |-> FALSE, predict_raised |-> FALSE]

Bump(c, k) == [c EXCEPT ![k] = @ + 1]

\* A run of the script starts: nothing is shown yet, the globals are unset.
StartRun(b) ==
    /\ pc' = "load_model"
    /\ button' = b
    /\ model' = None
    /\ ui' = {}
    /\ calls' = NoCalls
    /\ predicted_price' = None
    /\ input_dict' = EmptyDict
    /\ result' = NoCall
    /\ prepared_features' = <<>>
    /\ model_features' = None
    /\ df' = NoCall

InitScript ==
    /\ op = "none"
    /\ input_dict = EmptyDict
    /\ result = NoCall
    /\ prepared_features = <<>>
    /\ model_features = None
    /\ df = NoCall
    /\ pc = "load_model"
    /\ button = "none"
    /\ widgets = widget_default
    /\ session_state = EmptyDict
    /\ file_exists \in BOOLEAN
    /\ cache = None
    /\ model = None
    /\ ui = {}
    /\ calls = NoCalls
    /\ predicted_price = None

\* model = load_model() under @st.cache_resource: an entry of the cache is
\* returned, and the elements the call showed are shown again, without
\* running the body.
LoadModelCached ==
    /\ pc = "load_model"
    /\ cache.tag = "Some"
    /\ model' = cache.v.value
    /\ ui' = ui \cup cache.v.shown
    /\ pc' = "main"
    /\ UNCHANGED <<op, data_vars, button, widgets, session_state, file_exists,
                   cache, calls, predicted_price>>

\* load_model body, entry: if not os.path.exists(model_path)
LoadModelEnter ==
    /\ pc = "load_model"
    /\ cache.tag = "None"
    /\ pc' = IF file_exists THEN "joblib_load" ELSE "download"
    /\ UNCHANGED <<op, data_vars, button, widgets, session_state, file_exists,
                   cache, model, ui, calls, predicted_price>>

\* gdown.download returns: with the file written, or without it.
DownloadReturns(written) ==
    /\ pc = "download"
    /\ calls' = Bump(calls, "download")
    /\ file_exists' = written
    /\ ui' = ui \cup {"download_success"}
    /\ pc' = "joblib_load"
    /\ UNCHANGED <<op, data_vars, button, widgets, session_state, cache, model,
                   predicted_price>>

\* gdown.download raises: st.error, return None.
DownloadRaises ==
    /\ pc = "download"
    /\ calls' = [Bump(calls, "download") EXCEPT !.load_failed = TRUE]
    /\ ui' = ui \cup {"download_error"}
    /\ model' = None
    /\ cache' = Some([value |-> None, shown |-> ui'])
    /\ pc' = "main"
    /\ UNCHANGED <<op, data_vars, button, widgets, session_state, file_exists,
                   predicted_price>>

\* joblib.load returns the model m: st.success, return model.
JoblibLoadReturns(m) ==
    /\ pc = "joblib_load"
    /\ file_exists
    /\ calls' = Bump(calls, "load")
    /\ ui' = ui \cup {"load_success"}
    /\ model' = Some(m)
    /\ cache' = Some([value |-> Some(m), shown |-> ui'])
    /\ pc' = "main"
    /\ UNCHANGED <<op, data_vars, button, widgets, session_state, file_exists,
                   predicted_price>>

\* joblib.load raises (no file, or a file it cannot read): st.error, return None.
JoblibLoadRaises ==
    /\ pc = "joblib_load"
    /\ calls' = [Bump(calls, "load") EXCEPT !.load_failed = TRUE]
    /\ ui' = ui \cup {"load_error"}
    /\ model' = None
    /\ cache' = Some([value |-> None, shown |-> ui'])
    /\ pc' = "main"
    /\ UNCHANGED <<op, data_vars, button, widgets, session_state, file_exists,
                   predicted_price>>

\* Lines 178-319: model_features, the form, the button and input_data; with
\* no model the else branch of line 368.
Main ==
    /\ pc = "main"
    /\ IF model.tag = "None"
       THEN /\ ui' = ui \cup {"model_not_loaded"}
            /\ pc' = "sidebar"
            /\ UNCHANGED <<model_features, input_dict>>
       ELSE /\ model_features' =
                IF model.v.has_feature_names_in_
                THEN Some(model.v.feature_names_in_)
                ELSE None
            /\ ui' = ui \cup {"model_ready"}
                        \cup (IF model.v.has_feature_names_in_
                              THEN {"model_expects"} ELSE {})
            /\ IF button = "predict"
               THEN /\ input_dict' = input_data
                    /\ pc' = "prepare"
               ELSE /\ pc' = "sidebar"
                    /\ UNCHANGED input_dict
    /\ UNCHANGED <<op, result, prepared_features, df, button, widgets,
                   session_state, file_exists, cache, model, calls,
                   predicted_price>>

\* prepared_features = prepare_features(input_data), inside the try.
Prepare ==
    /\ pc = "prepare"
    /\ calls' = Bump(calls, "prepare")
    /\ result' = prepare_features(input_dict)
    /\ IF result'.kind = "raise"
       THEN /\ pc' = "except"
            /\ UNCHANGED prepared_features
       ELSE /\ pc' = "create_input_dataframe"
            /\ prepared_features' = result'.value
    /\ UNCHANGED <<op, input_dict, model_features, df, button, widgets,
                   session_state, file_exists, cache, model, ui,
                   predicted_price>>

\* input_df = create_input_dataframe(prepared_features, model_features)
CreateInputDataframe ==
    /\ pc = "create_input_dataframe"
    /\ \E order \in Orders(IF model_features.tag = "None" THEN {}
                           ELSE missing_cols(prepared_features, model_features.v)) :
           df' = create_input_dataframe(prepared_features, model_features, order)
    /\ pc' = IF df'.kind = "raise" THEN "except" ELSE "predict"
    /\ UNCHANGED <<op, input_dict, result, prepared_features, model_features,
                   button, widgets, session_state, file_exists, cache, model,
                   ui, calls, predicted_price>>

\* model.predict(input_df)[0] returns a price.
PredictReturns(price) ==
    /\ pc = "predict"
    /\ calls' = Bump(calls, "predict")
    /\ predicted_price' = Some(price)
    /\ pc' = "show"
    /\ UNCHANGED <<op, data_vars, button, widgets, session_state, file_exists,
                   cache, model, ui>>

\* Mutant: a failed predict is tried again instead of being reported.
PredictRaises_retry ==
    /\ pc = "predict"
    /\ calls' = [Bump(calls, "predict") EXCEPT !.predict_raised = TRUE]
    /\ pc' = "predict"
    /\ UNCHANGED <<op, data_vars, button, widgets, session_state, file_exists,
                   cache, model, ui, predicted_price>>

\* model.predict(input_df) raises: control passes to the except clause.
PredictRaises ==
    /\ pc = "predict"
    /\ calls' = [Bump(calls, "predict") EXCEPT !.predict_raised = TRUE]
    /\ pc' = "except"
    /\ UNCHANGED <<op, data_vars, button, widgets, session_state, file_exists,
                   cache, model, ui, predicted_price>>

\* Lines 332-362: the price, the metrics and the details.
Show ==
    /\ pc = "show"
    /\ ui' = ui \cup {"predicted_price", "metrics", "details"}
    /\ pc' = "sidebar"
    /\ UNCHANGED <<op, data_vars, button, widgets, session_state, file_exists,
                   cache, model, calls, predicted_price>>

\* except Exception as e: st.error, st.info.
Except ==
    /\ pc = "except"
    /\ ui' = ui \cup {"predict_error", "check_fields_hint"}
    /\ pc' = "sidebar"
    /\ UNCHANGED <<op, data_vars, button, widgets, session_state, file_exists,
                   cache, model, calls, predicted_price>>

\* Lines 379-439: the sidebar and the footer. With the template button
\* pressed the template's values are stored in st.session_state and
\* st.rerun() starts the script again.
Sidebar ==
    /\ pc = "sidebar"
    /\ IF button = "template"
       THEN /\ session_state' =
                [k \in DOMAIN session_state \cup DOMAIN template_state(widgets["template"]) |->
                    IF k \in DOMAIN template_state(widgets["template"])
                    THEN template_state(widgets["template"])[k]
                    ELSE session_state[k]]
            /\ StartRun("none")
       ELSE /\ ui' = ui \cup {"sidebar", "footer"}
            /\ pc' = "done"
            /\ UNCHANGED <<data_vars, button, session_state, model, calls,
                           predicted_price>>
    /\ UNCHANGED <<op, widgets, file_exists, cache>>

Changed(ws) == {w \in Widgets : ws[w] # widget_default[w]}

\* The user moves a widget: the script runs again.
ChangeWidget(w, v) ==
    /\ pc = "done"
    /\ v # widgets[w]
    /\ Cardinality(Changed([widgets EXCEPT ![w] = v])) <= MaxChanged
    /\ widgets' = [widgets EXCEPT ![w] = v]
    /\ StartRun("none")
    /\ UNCHANGED <<op, session_state, file_exists, cache>>

\* The user presses a button: the script runs again, st.button returns True.
PressButton(b) ==
    /\ pc = "done"
    /\ StartRun(b)
    /\ UNCHANGED <<op, widgets, session_state, file_exists, cache>>

NextScript ==
    \/ LoadModelCached
    \/ LoadModelEnter
    \/ \E written \in BOOLEAN : DownloadReturns(written)
    \/ DownloadRaises
    \/ \E m \in Models : JoblibLoadReturns(m)
    \/ JoblibLoadRaises
    \/ Main
    \/ Prepare
    \/ CreateInputDataframe
    \/ \E price \in {74120} : PredictReturns(price)
    \/ PredictRaises
    \/ Show
    \/ Except
    \/ Sidebar
    \/ \E w \in Widgets : \E i \in DOMAIN widget_options[w] :
           ChangeWidget(w, widget_options[w][i])
    \/ PressButton("predict")
    \/ PressButton("template")

SpecApp == InitScript /\ [][NextScript]_vars

(***************************************************************************)
(* Harness: the two functions applied to inputs drawn from bounded sets.   *)
(***************************************************************************)
NumericValues == {0, 27, 650}

\* Values offered for a field: for a categorical field every key of its table
\* and a value that is no key of it.
FieldValues(f) ==
    IF f \in SeqSet(numeric_features) THEN NumericValues
    ELSE IF f = "metro" THEN DOMAIN encoding_maps[f] \cup {"Neizvestnyj rajon"}
    ELSE IF f = "property_type" THEN DOMAIN encoding_maps[f] \cup {"Taunhaus"}
    ELSE DOMAIN encoding_maps[f] \cup {"drugoe"}

InputFields == SeqSet(numeric_features) \cup DOMAIN encoding_maps

ColumnNames == {"a", "b", "c"}
ColumnValues == {1, 2}

Init ==
    /\ op = "none"
    /\ input_dict = EmptyDict
    /\ result = NoCall
    /\ prepared_features = <<>>
    /\ model_features = None
    /\ df = NoCall
    /\ pc = "done"
    /\ button = "none"
    /\ widgets = widget_default
    /\ session_state = EmptyDict
    /\ file_exists = FALSE
    /\ cache = None
    /\ model = None
    /\ ui = {}
    /\ calls = NoCalls
    /\ predicted_price = None

\* The caller sets input_dict[f] = v before the call.
SetField(f, v) ==
    /\ op = "none"
    /\ prepared_features = <<>>
    /\ Cardinality(DOMAIN input_dict \cup {f}) <= MaxFields
    /\ input_dict' = [g \in DOMAIN input_dict \cup {f} |->
                         IF g = f THEN v ELSE input_dict[g]]
    /\ UNCHANGED <<op, result, prepared_features, model_features, df>>
    /\ UNCHANGED script_vars

CallPrepareFeatures ==
    /\ op = "none"
    /\ op' = "prepare_features"
    /\ result' = prepare_features(input_dict)
    /\ UNCHANGED <<input_dict, prepared_features, model_features, df>>
    /\ UNCHANGED script_vars

\* The caller sets prepared_features[k] = v before the call.
SetKey(k, v) ==
    /\ op = "none"
    /\ input_dict = EmptyDict
    /\ Cardinality(DictKeySet(prepared_features) \cup {k}) <= MaxKeys
    /\ prepared_features' = DictSet(prepared_features, k, v)
    /\ UNCHANGED <<op, input_dict, result, model_features, df>>
    /\ UNCHANGED script_vars

CallCreateInputDataframe(mf) ==
    /\ op = "none"
    /\ input_dict = EmptyDict
    /\ op' = "create_input_dataframe"
    /\ model_features' = mf
    /\ \E order \in Orders(IF mf.tag = "None" THEN {}
                           ELSE missing_cols(prepared_features, mf.v)) :
           df' = create_input_dataframe(prepared_features, mf, order)
    /\ UNCHANGED <<input_dict, result, prepared_features>>
    /\ UNCHANGED script_vars

ExpectedColumns ==
    UNION {[1..n -> ColumnNames] : n \in 0..MaxCols}

Next ==
    \/ \E f \in InputFields : \E v \in FieldValues(f) : SetField(f, v)
    \/ CallPrepareFeatures
    \/ \E k \in ColumnNames : \E v \in ColumnValues : SetKey(k, v)
    \/ CallCreateInputDataframe(None)
    \/ \E cols \in ExpectedColumns : CallCreateInputDataframe(Some(cols))

Spec == Init /\ [][Next]_vars

(***************************************************************************)
(* Claims about prepare_features, checked under Spec.                      *)
(***************************************************************************)
Encoded == op = "prepare_features"
Returned == Encoded /\ result.kind = "return"
Present(f) == f \in DOMAIN input_dict
Out(k) == DictGet(result.value, k)

\* C1: prepare_features never raises: for every input record, whatever
\* fields are present and whatever value each holds (a property_type that is
\* no key of its table included), the call returns a feature record.
C1_NeverRaises == Encoded => result.kind = "return"

FixedKeys ==
    <<"total_area", "numbere_of_rooms", "ceiling_height", "Time_metro",
      "pass_elevators", "cargo_elevators", "renovation_encoded",
      "windows_encoded", "children_pets_encoded", "balcony_encoded",
      "parking_encoded", "bathroom_encoded", "metro_encoder",
      "property_Kvartira", "address_encod">>

\* C2: whenever prepare_features returns, the returned record has exactly
\* the 15 fixed keys, whichever input fields were supplied; no input key is
\* added to it and address_encod is 0.
C2_FixedKeySet ==
    Returned =>
        /\ Len(result.value) = 15
        /\ DictKeySet(result.value) = SeqSet(FixedKeys)
        /\ Cardinality(DictKeySet(result.value)) = 15
        /\ \A f \in DOMAIN input_dict :
               f \notin SeqSet(numeric_features) => ~DictHas(result.value, f)
        /\ Out("address_encod") = 0

C2_Witness ==
    /\ Returned
    /\ Present("renovation") /\ input_dict["renovation"] = "evroremont"
    /\ Present("total_area")
    /\ Len(result.value) = 15

\* C3: property_Kvartira is 1 exactly when the input property_type is
\* 'Kvartira'; it is 0 when property_type is absent and 0 for every other
\* value, listed in the table or not.
C3_PropertyIndicator ==
    Encoded =>
        /\ result.kind = "return"
        /\ Out("property_Kvartira") =
               (IF Present("property_type")
                   /\ input_dict["property_type"] = "Kvartira"
                THEN 1 ELSE 0)

OrdinalFields ==
    {<<"renovation", "renovation_encoded">>, <<"windows", "windows_encoded">>,
     <<"children_pets", "children_pets_encoded">>,
     <<"balcony", "balcony_encoded">>, <<"parking", "parking_encoded">>,
     <<"bathroom", "bathroom_encoded">>}

\* C4: for each of the six ordinal categorical fields, whenever
\* prepare_features returns, the *_encoded output is the code of the
\* field's table when the value is present and a key of the table, and 0
\* when the field is absent or its value is no key; it depends on no other
\* field.
C4_OrdinalCodes ==
    Returned =>
        \A p \in OrdinalFields :
            Out(p[2]) =
                (IF Present(p[1]) /\ input_dict[p[1]] \in DOMAIN encoding_maps[p[1]]
                 THEN encoding_maps[p[1]][input_dict[p[1]]]
                 ELSE 0)

C4_Witness ==
    /\ Returned
    /\ Present("balcony") /\ input_dict["balcony"] = "lodzhiya"
    /\ Present("windows") /\ input_dict["windows"] = "drugoe"
    /\ Out("balcony_encoded") = 3
    /\ Out("windows_encoded") = 0

\* C5: whenever prepare_features returns, metro_encoder is the code of the
\* lookup when metro is present and a key of it ('Centr' gives 1), and 0
\* when metro is absent or no key of it ('Neizvestnyj rajon' gives 0).
C5_MetroCode ==
    Returned =>
        /\ Out("metro_encoder") =
               (IF Present("metro") /\ input_dict["metro"] \in DOMAIN encoding_maps["metro"]
                THEN encoding_maps["metro"][input_dict["metro"]]
                ELSE 0)
        /\ (Present("metro") /\ input_dict["metro"] = "Centr")
               => Out("metro_encoder") = 1
        /\ (Present("metro") /\ input_dict["metro"] = "Neizvestnyj rajon")
               => Out("metro_encoder") = 0

C5_Witness ==
    /\ Returned
    /\ Present("metro") /\ input_dict["metro"] = "Neizvestnyj rajon"
    /\ Present("renovation")
    /\ Out("metro_encoder") = 0

\* C6: whenever prepare_features returns, each of the six numeric outputs
\* equals the input value of the same name when present and 0 when absent;
\* no categorical input changes it.
C6_NumericPassthrough ==
    Returned =>
        \A f \in SeqSet(numeric_features) :
            Out(f) = (IF Present(f) THEN input_dict[f] ELSE 0)

C6_Witness ==
    /\ Returned
    /\ Present("cargo_elevators") /\ input_dict["cargo_elevators"] = 650
    /\ Present("parking")
    /\ Out("cargo_elevators") = 650
    /\ Out("total_area") = 0

(***************************************************************************)
(* Claims about create_input_dataframe, checked under Spec.                *)
(***************************************************************************)
Framed == op = "create_input_dataframe"

\* C7: with expected columns given, create_input_dataframe raises nothing
\* and returns exactly the expected columns, in their order and number;
\* a column the features have keeps their value, a column they lack is 0,
\* and every other feature is dropped: ({a:1, b:2}, [b, c]) gives {b:2, c:0}.
C7_Reconcile ==
    (Framed /\ model_features.tag = "Some") =>
        LET cols == model_features.v IN
        /\ df.kind = "return"
        /\ Len(df.value) = Len(cols)
        /\ DictKeys(df.value) = cols
        /\ \A i \in 1..Len(cols) :
               df.value[i][2] =
                   (IF DictHas(prepared_features, cols[i])
                    THEN DictGet(prepared_features, cols[i])
                    ELSE 0)
        /\ (prepared_features = << <<"a", 1>>, <<"b", 2>> >> /\ cols = <<"b", "c">>)
               => df.value = << <<"b", 2>>, <<"c", 0>> >>

C7_Witness ==
    /\ Framed
    /\ model_features = Some(<<"b", "c">>)
    /\ prepared_features = << <<"a", 1>>, <<"b", 2>> >>
    /\ df.kind = "return"
    /\ df.value = << <<"b", 2>>, <<"c", 0>> >>

\* C8: with model_features None, create_input_dataframe returns the
\* features unchanged: same keys, same values, same order.
C8_Unchanged ==
    (Framed /\ model_features.tag = "None") =>
        /\ df.kind = "return"
        /\ df.value = prepared_features

C8_Witness ==
    /\ Framed
    /\ model_features.tag = "None"
    /\ prepared_features = << <<"b", 2>>, <<"a", 1>> >>
    /\ df.kind = "return"
    /\ df.value = << <<"b", 2>>, <<"a", 1>> >>

(***************************************************************************)
(* Claims about the script, checked under SpecApp.                         *)
(***************************************************************************)
AfterLoad ==
    pc \in {"main", "prepare", "create_input_dataframe", "predict", "show",
            "except", "sidebar", "done"}

\* C9: a Model Provider failure is reported and not retried within a run:
\* a failed download or load shows an error and leaves model None, such a
\* run shows 'model not loaded' and calls neither prepare_features nor
\* predict; when predict raises the run shows an error and no price; the
\* download, the load and predict are each called at most once in a run.
C9_ProviderFailure ==
    /\ calls.download <= 1 /\ calls.load <= 1 /\ calls.predict <= 1
    /\ calls.load_failed =>
           /\ model.tag = "None"
           /\ ui \cap {"download_error", "load_error"} # {}
    /\ (AfterLoad /\ model.tag = "None") =>
           /\ calls.prepare = 0
           /\ calls.predict = 0
           /\ "predicted_price" \notin ui
    /\ (pc \in {"sidebar", "done"} /\ model.tag = "None") =>
           "model_not_loaded" \in ui
    /\ (pc \in {"sidebar", "done"} /\ calls.predict_raised) =>
           /\ "predict_error" \in ui
           /\ "predicted_price" \notin ui
           /\ predicted_price.tag = "None"

C9_Witness ==
    /\ pc = "done"
    /\ calls.load_failed
    /\ "download_error" \in ui
    /\ calls.download = 1
    /\ model.tag = "None"
    /\ "model_not_loaded" \in ui

FormFields ==
    {"total_area", "numbere_of_rooms", "ceiling_height", "Time_metro",
     "property_type", "metro", "renovation", "balcony", "windows", "parking",
     "bathroom", "children_pets", "pass_elevators", "cargo_elevators"}

CategoricalFields ==
    {"renovation", "windows", "children_pets", "balcony", "parking",
     "bathroom", "property_type", "metro"}

\* C10: every record the form can submit is in the encoder's domain: each
\* of the eight categorical widgets only returns keys of its encoding
\* table, the submitted record holds all 14 input fields, and
\* prepare_features returns on it without raising.
C10_FormInDomain ==
    /\ \A f \in CategoricalFields : widgets[f] \in DOMAIN encoding_maps[f]
    /\ calls.prepare > 0 =>
           /\ DOMAIN input_dict = FormFields
           /\ \A f \in CategoricalFields :
                  input_dict[f] \in DOMAIN encoding_maps[f]
           /\ result.kind = "return"

C10_Witness ==
    /\ calls.prepare = 1
    /\ result.kind = "return"
    /\ DOMAIN input_dict = FormFields
    /\ input_dict["parking"] = "mnogourovnevaya"
    /\ DictGet(result.value, "parking_encoded") = 3

====
